---- MODULE Spec2Model ----
(***************************************************************************)
(* A model of mobu's JupyterClient (src/src/mobu/jupyterclient.py): one    *)
(* client bound to one user, driven one call at a time.  Every await of a  *)
(* method is one step; what the remote platform answers (status, final     *)
(* URL, Location header, websocket messages) is chosen by the environment. *)
(* Failures of the transport itself (connection errors, malformed          *)
(* messages) are outside the model.                                        *)
(*                                                                         *)
(* Beside it: MonkeyBusinessFactory.create                                 *)
(* (src/src/sciencemonkey/monkeybusinessfactory.py) with the registry its  *)
(* caller keeps, a second client next to the first, and the cancellation   *)
(* of a running call.  Each has its own specification over the same        *)
(* variables; a specification leaves the variables of the others alone.    *)
(***************************************************************************)
EXTENDS Naturals, Sequences, FiniteSets, TLC

VARIABLES
    user,          \* self.user.username
    jupyter_url,   \* self.jupyter_url
    xsrftoken,     \* self.xsrftoken
    headers,       \* self.headers (the session's default headers)
    cookies,       \* self.session.cookie_jar
    op,            \* the method the caller invoked last ("none" before any call)
    pc,            \* position inside the running call, "idle" between calls
    outcome,       \* "none" while running, then "returned" or "raised"
    exc,           \* the exception raised (NoExc when none)
    retval,        \* the string a call returned ("" for None)
    running,       \* what is_lab_running returned (ensure_lab's local)
    calls,         \* the methods entered during this call, in order
    req,           \* the last request issued
    resp,          \* the last response received
    post_resp,     \* the response of spawn_lab's POST
    progress_url,  \* local of spawn_lab
    cnt,           \* per-call counters of requests, polls, sleeps, sends
    slept,         \* time units spent in asyncio.sleep during this call
    msg_id,        \* local of run_python
    inbox,         \* websocket messages delivered and not yet received
    consumed,      \* websocket messages receive_json has handed to the call
    lab_spawned,   \* the platform: the lab this call waits for is up
    teardowns,     \* delete_lab calls completed in a row before this call
    stop_requested, \* the task running the call has been cancelled
    peer,          \* a second JupyterClient, of another monkey
    body,          \* the request of the last MonkeyBusinessFactory.create
    made,          \* the objects that create constructed, in order
    monkey,        \* the Monkey that create returned (NoMonkey when none)
    error,         \* the exception create raised ("" when none)
    nmonkeys,      \* Monkey objects constructed so far
    registry       \* username -> registered Monkey (NoMonkey when none)

vars == <<user, jupyter_url, xsrftoken, headers, cookies, op, pc, outcome, exc,
          retval, running, calls, req, resp, post_resp, progress_url, cnt,
          slept, msg_id, inbox, consumed, lab_spawned, teardowns,
          stop_requested, peer, body, made, monkey, error, nmonkeys,
          registry>>

factory == <<body, made, monkey, error, nmonkeys, registry>>

\* What the steps of the first client's calls leave alone.
others == <<teardowns, stop_requested, peer, factory>>

\* The first client and the platform behind it.
client == <<user, jupyter_url, xsrftoken, headers, cookies, op, pc, outcome,
            exc, retval, running, calls, req, resp, post_resp, progress_url,
            cnt, slept, msg_id, inbox, consumed, lab_spawned>>

session == <<user, jupyter_url, xsrftoken, headers, cookies>>

(***************************************************************************)
(* Bounds of the model.                                                    *)
(***************************************************************************)
MaxPolls == 3      \* the poll and sleep counters saturate here
MaxMsgs == 3       \* websocket messages the platform delivers in one call
MaxMonkeys == 3    \* Monkey objects create constructs
MaxTeardowns == 2  \* the count of delete_lab calls in a row saturates here

(***************************************************************************)
(* Inputs.                                                                 *)
(***************************************************************************)
Usernames == {"alice", "bob"}
TokenOf(u) == "token-" \o u
XsrfTokens == {"A1B2C3D4E5F6G7H8"}
Statuses == {200, 201, 202, 204, 302, 404, 500}
KernelIds == {"k1", "k2"}
MsgIds == {"m1", "m2"}
Texts == {"42\n", "hello\n"}

environment_url == "https://nublado.lsst.codes"

Min(a, b) == IF a < b THEN a ELSE b

(***************************************************************************)
(* The URLs the methods build from self.jupyter_url and the username.      *)
(***************************************************************************)
login_url(j) == j \o "hub/login"
home_url(j) == j \o "hub/home"
hub_url(j) == j \o "hub"
spawn_url(j) == j \o "hub/spawn"
lab_url(j, u) == j \o "user/" \o u \o "/lab"
server_url(j, u) == j \o "hub/api/users/" \o u \o "/server"
kernel_url(j, u) == j \o "user/" \o u \o "/api/kernels"
channels_url(j, u, k) == j \o "user/" \o u \o "/api/kernels/" \o k \o "/channels"
pending_url(j, u) == j \o "hub/spawn-pending/" \o u

\* Where a request that follows redirects may land, and what a Location
\* header may name.
Urls ==
    LET j == environment_url \o "/nb/" IN
    {login_url(j), home_url(j), hub_url(j), spawn_url(j)}
        \cup {lab_url(j, u) : u \in Usernames}
        \cup {pending_url(j, u) : u \in Usernames}

NoReq == [method |-> "", url |-> "", headers |-> {}, data |-> {},
          allow_redirects |-> TRUE]
NoResp == [status |-> 0, url |-> "", location |-> "", id |-> ""]
NoMsg == [msg_type |-> "", parent |-> "", text |-> ""]
NoExc == [what |-> "", status |-> 0, url |-> "", expected |-> "",
          payload |-> NoMsg]
ZeroCnt == [get |-> 0, post |-> 0, delete |-> 0, poll |-> 0, sleep |-> 0,
            connect |-> 0, send |-> 0]

\* session.get / post / delete: the session's default headers are sent with
\* every request, the per-request ones added to them.
Request(m, u, extra, data, redirects) ==
    [method |-> m, url |-> u, headers |-> headers \cup extra, data |-> data,
     allow_redirects |-> redirects]

\* A response to request r.  With redirects followed r.url is where the
\* request landed; with allow_redirects=False no redirect is followed, so
\* r.url is the URL requested and the redirect target stays in Location.
Responses(r, ids) ==
    IF r.allow_redirects
    THEN {[status |-> s, url |-> u, location |-> "", id |-> k] :
              s \in Statuses, u \in Urls, k \in ids}
    ELSE {[status |-> s, url |-> r.url, location |-> l, id |-> k] :
              s \in Statuses, l \in Urls, k \in ids}

(***************************************************************************)
(* The requests MonkeyBusinessFactory.create is given, and what it builds. *)
(***************************************************************************)
None == "<None>"     \* Python's None; no string of a request equals it
Uids == {1000}
Businesses == {None, "JupyterLoginLoop", "JupyterPythonLoop",
               "jupyterloginloop", ""}
Keys == {"username", "uidnumber", "business"}

\* Every request body: each key present or missing.
Bodies ==
    {[k \in K |-> b[k]] :
         b \in [username : Usernames, uidnumber : Uids,
                business : Businesses],
         K \in SUBSET Keys}

NoUser == [username |-> "", uidnumber |-> 0]
NoBusiness == [kind |-> "", monkey |-> 0, state |-> ""]
NoMonkey == [id |-> 0, user |-> NoUser, business |-> NoBusiness]

\* User(username, uidnumber)
NewUser(n, uid) == [username |-> n, uidnumber |-> uid]

\* Business(m), JupyterLoginLoop(m), JupyterPythonLoop(m): the loop keeps the
\* monkey it belongs to and is idle until it is started.
NewBusiness(kind, id) == [kind |-> kind, monkey |-> id, state |-> "Idle"]

\* m = Monkey(u); m.business = ...
NewMonkey(id, u, kind) ==
    [id |-> id, user |-> u, business |-> NewBusiness(kind, id)]

\* The messages the kernel's channel may deliver.
Msgs ==
    {[msg_type |-> t, parent |-> p, text |-> ""] :
         t \in {"error", "status"}, p \in MsgIds}
        \cup {[msg_type |-> "stream", parent |-> p, text |-> x] :
                  p \in MsgIds, x \in Texts}

\* The second client before it is constructed.
NoPeer == [built |-> FALSE, user |-> "", xsrftoken |-> "", headers |-> {},
           cookies |-> {}, pc |-> "idle", outcome |-> "none", sent |-> {}]

(***************************************************************************)
(* JupyterClient.__init__                                                  *)
(***************************************************************************)
Init ==
    /\ user \in Usernames
    /\ jupyter_url = environment_url \o "/nb/"
    /\ xsrftoken \in XsrfTokens
    /\ headers = {<<"Authorization", "Bearer " \o TokenOf(user)>>,
                  <<"x-xsrftoken", xsrftoken>>}
    /\ cookies = {<<"_xsrf", xsrftoken>>}
    /\ op = "none"
    /\ pc = "idle"
    /\ outcome = "none"
    /\ exc = NoExc
    /\ retval = ""
    /\ running = FALSE
    /\ calls = <<>>
    /\ req = NoReq
    /\ resp = NoResp
    /\ post_resp = NoResp
    /\ progress_url = ""
    /\ cnt = ZeroCnt
    /\ slept = 0
    /\ msg_id = ""
    /\ inbox = <<>>
    /\ consumed = <<>>
    /\ lab_spawned = FALSE
    /\ teardowns = 0
    /\ stop_requested = FALSE
    /\ peer = NoPeer
    /\ body = [k \in {} |-> ""]
    /\ made = <<>>
    /\ monkey = NoMonkey
    /\ error = ""
    /\ nmonkeys = 0
    /\ registry = [n \in Usernames |-> NoMonkey]

(***************************************************************************)
(* The caller invokes a method on the idle client.                         *)
(***************************************************************************)
Methods == {"hub_login", "ensure_lab", "lab_login", "is_lab_running",
            "spawn_lab", "delete_lab", "create_kernel", "run_python"}

\* spawn_lab going straight to its POST.
Entry_SkipsSpawnGet(m) ==
    CASE m = "ensure_lab" -> "is_lab_running"
      [] m = "spawn_lab" -> "spawn_post"
      [] m = "run_python" -> "ws_connect"
      [] OTHER -> m

Entry(m) ==
    CASE m = "ensure_lab" -> "is_lab_running"
      [] m = "spawn_lab" -> "spawn_get"
      [] m = "run_python" -> "ws_connect"
      [] OTHER -> m

Entered(m) ==
    IF m = "ensure_lab" THEN <<"ensure_lab", "is_lab_running">> ELSE <<m>>

Enter(m) ==
    /\ pc = "idle"
    /\ op' = m
    /\ pc' = Entry(m)
    /\ outcome' = "none"
    /\ exc' = NoExc
    /\ retval' = ""
    /\ running' = FALSE
    /\ calls' = Entered(m)
    /\ req' = NoReq
    /\ resp' = NoResp
    /\ post_resp' = NoResp
    /\ progress_url' = ""
    /\ cnt' = ZeroCnt
    /\ slept' = 0
    /\ msg_id' = ""
    /\ inbox' = <<>>
    /\ consumed' = <<>>
    /\ lab_spawned' = FALSE
    /\ UNCHANGED session

Call(m) ==
    /\ Enter(m)
    /\ UNCHANGED others

\* return and raise end the call: control is back with the caller.
Return(v) ==
    /\ pc' = "idle"
    /\ outcome' = "returned"
    /\ retval' = v
    /\ exc' = NoExc

Raise(e) ==
    /\ pc' = "idle"
    /\ outcome' = "raised"
    /\ exc' = e
    /\ retval' = ""

\* The call goes on at position p.
Goto(p) ==
    /\ pc' = p
    /\ UNCHANGED <<outcome, retval, exc>>

\* Exception(f"Error {r.status} from {r.url}")
StatusError(r) == [NoExc EXCEPT !.what = "Error", !.status = r.status,
                                !.url = r.url]

\* Exception(f"Redirected to {r.url} but expected {home_url}")
RedirectError(r, e) == [NoExc EXCEPT !.what = "Redirected", !.url = r.url,
                                     !.expected = e]

\* Exception(f"Error running python {r}")
PythonError(r) == [NoExc EXCEPT !.what = "Error running python",
                                !.payload = r]

\* One request sent; kind names the counter it is counted under.
Sent(r, kind) ==
    /\ req' = r
    /\ cnt' = [cnt EXCEPT ![kind] = Min(@ + 1, MaxPolls)]

(***************************************************************************)
(* hub_login                                                               *)
(***************************************************************************)
\* hub_login without the check of where the login landed.
hub_login_NoRedirectCheck ==
    /\ pc = "hub_login"
    /\ LET q == Request("GET", login_url(jupyter_url), {}, {}, TRUE) IN
       \E r \in Responses(q, {""}) :
         /\ Sent(q, "get")
         /\ resp' = r
         /\ IF r.status # 200 THEN Raise(StatusError(r)) ELSE Return("")
    /\ UNCHANGED <<session, others, lab_spawned, op, running, calls, post_resp,
                   progress_url, slept, msg_id, inbox, consumed>>

hub_login ==
    /\ pc = "hub_login"
    /\ LET q == Request("GET", login_url(jupyter_url), {}, {}, TRUE) IN
       \E r \in Responses(q, {""}) :
         /\ Sent(q, "get")
         /\ resp' = r
         /\ IF r.status # 200
            THEN Raise(StatusError(r))
            ELSE IF r.url # home_url(jupyter_url)
                 THEN Raise(RedirectError(r, home_url(jupyter_url)))
                 ELSE Return("")
    /\ UNCHANGED <<session, others, lab_spawned, op, running, calls, post_resp,
                   progress_url, slept, msg_id, inbox, consumed>>

(***************************************************************************)
(* is_lab_running, alone or as the first step of ensure_lab                *)
(***************************************************************************)
\* is_lab_running raising on a status other than 200.
is_lab_running_RaisesOnStatus ==
    /\ pc = "is_lab_running"
    /\ LET q == Request("GET", hub_url(jupyter_url), {}, {}, TRUE) IN
       \E r \in Responses(q, {""}) :
         /\ Sent(q, "get")
         /\ resp' = r
         /\ running' = IF r.url = spawn_url(jupyter_url) THEN FALSE ELSE TRUE
         /\ IF r.status # 200
            THEN Raise(StatusError(r))
            ELSE IF op = "ensure_lab" THEN Goto("ensure_lab") ELSE Return("")
    /\ UNCHANGED <<session, others, lab_spawned, op, calls, post_resp, progress_url,
                   slept, msg_id, inbox, consumed>>

is_lab_running ==
    /\ pc = "is_lab_running"
    /\ LET q == Request("GET", hub_url(jupyter_url), {}, {}, TRUE) IN
       \E r \in Responses(q, {""}) :
         /\ Sent(q, "get")
         /\ resp' = r
         \* a status other than 200 is logged, nothing more
         /\ running' = IF r.url = spawn_url(jupyter_url) THEN FALSE ELSE TRUE
         /\ IF op = "ensure_lab" THEN Goto("ensure_lab") ELSE Return("")
    /\ UNCHANGED <<session, others, lab_spawned, op, calls, post_resp, progress_url,
                   slept, msg_id, inbox, consumed>>

(***************************************************************************)
(* ensure_lab, after is_lab_running has returned                           *)
(***************************************************************************)
\* ensure_lab spawning whatever the probe said.
ensure_lab_AlwaysSpawns ==
    /\ pc = "ensure_lab"
    /\ Goto("spawn_get")
    /\ calls' = Append(calls, "spawn_lab")
    /\ UNCHANGED <<session, others, lab_spawned, op, running, req, resp, post_resp,
                   progress_url, cnt, slept, msg_id, inbox, consumed>>

ensure_lab ==
    /\ pc = "ensure_lab"
    /\ IF running
       THEN /\ Goto("lab_login")
            /\ calls' = Append(calls, "lab_login")
       ELSE /\ Goto("spawn_get")
            /\ calls' = Append(calls, "spawn_lab")
    /\ UNCHANGED <<session, others, lab_spawned, op, running, req, resp, post_resp,
                   progress_url, cnt, slept, msg_id, inbox, consumed>>

(***************************************************************************)
(* lab_login                                                               *)
(***************************************************************************)
\* lab_login trying once more after a status other than 200.
lab_login_RetriesOnce ==
    /\ pc = "lab_login"
    /\ LET q == Request("GET", lab_url(jupyter_url, user), {}, {}, TRUE) IN
       \E r \in Responses(q, {""}) :
         /\ Sent(q, "get")
         /\ resp' = r
         /\ IF r.status # 200
            THEN IF cnt.get = 0
                 THEN Goto("lab_login")
                 ELSE Raise(StatusError(r))
            ELSE Return("")
    /\ UNCHANGED <<session, others, lab_spawned, op, running, calls, post_resp,
                   progress_url, slept, msg_id, inbox, consumed>>

lab_login ==
    /\ pc = "lab_login"
    /\ LET q == Request("GET", lab_url(jupyter_url, user), {}, {}, TRUE) IN
       \E r \in Responses(q, {""}) :
         /\ Sent(q, "get")
         /\ resp' = r
         /\ IF r.status # 200 THEN Raise(StatusError(r)) ELSE Return("")
    /\ UNCHANGED <<session, others, lab_spawned, op, running, calls, post_resp,
                   progress_url, slept, msg_id, inbox, consumed>>

(***************************************************************************)
(* spawn_lab                                                               *)
(***************************************************************************)
SpawnBody == {<<"kernel_image", "lsstsqre/sciplat-lab:recommended">>,
              <<"image_tag", "latest">>, <<"size", "small">>}

SleepInterval == 15

\* DM-23864: a GET on the spawn URL first.
spawn_get ==
    /\ pc = "spawn_get"
    /\ LET q == Request("GET", spawn_url(jupyter_url), {}, {}, TRUE) IN
       \E r \in Responses(q, {""}) :
         /\ Sent(q, "get")
         /\ resp' = r
         /\ Goto("spawn_text")
    /\ UNCHANGED <<session, others, lab_spawned, op, running, calls, post_resp,
                   progress_url, slept, msg_id, inbox, consumed>>

\* await r.text()
spawn_text ==
    /\ pc = "spawn_text"
    /\ Goto("spawn_post")
    /\ UNCHANGED <<session, others, lab_spawned, op, running, calls, req, resp,
                   post_resp, progress_url, cnt, slept, msg_id, inbox,
                   consumed>>

\* spawn_post taking every status below 400 for the redirect.
spawn_post_ErrorsOnly ==
    /\ pc = "spawn_post"
    /\ LET q == Request("POST", spawn_url(jupyter_url), {}, SpawnBody, FALSE) IN
       \E r \in Responses(q, {""}) :
         /\ Sent(q, "post")
         /\ resp' = r
         /\ post_resp' = r
         /\ IF r.status >= 400
            THEN /\ Raise(StatusError(r))
                 /\ UNCHANGED progress_url
            ELSE /\ progress_url' = r.url
                 /\ Goto("spawn_poll")
    /\ UNCHANGED <<session, others, lab_spawned, op, running, calls, slept, msg_id,
                   inbox, consumed>>

spawn_post ==
    /\ pc = "spawn_post"
    /\ LET q == Request("POST", spawn_url(jupyter_url), {}, SpawnBody, FALSE) IN
       \E r \in Responses(q, {""}) :
         /\ Sent(q, "post")
         /\ resp' = r
         /\ post_resp' = r
         /\ IF r.status # 302
            THEN /\ Raise(StatusError(r))
                 /\ UNCHANGED progress_url
            ELSE /\ progress_url' = r.url
                 /\ Goto("spawn_poll")
    /\ UNCHANGED <<session, others, lab_spawned, op, running, calls, slept, msg_id,
                   inbox, consumed>>

\* What a GET of the progress URL answers: it lands on the user's lab once
\* the platform has spawned it, and anywhere else before.
ProgressResponses(q) ==
    {r \in Responses(q, {""}) :
         (r.url = lab_url(jupyter_url, user)) <=> lab_spawned}

\* spawn_poll taking a 200 for the lab being up.
spawn_poll_ReturnsOn200 ==
    /\ pc = "spawn_poll"
    /\ LET q == Request("GET", progress_url, {}, {}, TRUE) IN
       \E r \in ProgressResponses(q) :
         /\ Sent(q, "poll")
         /\ resp' = r
         /\ IF r.status = 200 THEN Return("") ELSE Goto("spawn_sleep")
    /\ UNCHANGED <<session, others, lab_spawned, op, running, calls, post_resp,
                   progress_url, slept, msg_id, inbox, consumed>>

\* spawn_poll giving up at the third poll.
spawn_poll_Capped ==
    /\ pc = "spawn_poll"
    /\ LET q == Request("GET", progress_url, {}, {}, TRUE) IN
       \E r \in ProgressResponses(q) :
         /\ Sent(q, "poll")
         /\ resp' = r
         /\ IF r.url = lab_url(jupyter_url, user)
            THEN Return("")
            ELSE IF cnt.poll >= 2
                 THEN Raise(StatusError(r))
                 ELSE Goto("spawn_sleep")
    /\ UNCHANGED <<session, others, lab_spawned, op, running, calls, post_resp,
                   progress_url, slept, msg_id, inbox, consumed>>

\* One turn of the while True loop, up to its return or its sleep.
spawn_poll ==
    /\ pc = "spawn_poll"
    /\ LET q == Request("GET", progress_url, {}, {}, TRUE) IN
       \E r \in ProgressResponses(q) :
         /\ Sent(q, "poll")
         /\ resp' = r
         /\ IF r.url = lab_url(jupyter_url, user)
            THEN Return("")
            ELSE Goto("spawn_sleep")
    /\ UNCHANGED <<session, others, lab_spawned, op, running, calls, post_resp,
                   progress_url, slept, msg_id, inbox, consumed>>

\* await asyncio.sleep(15), then around the loop again.
spawn_sleep ==
    /\ pc = "spawn_sleep"
    /\ slept' = Min(slept + SleepInterval, SleepInterval * MaxPolls)
    /\ cnt' = [cnt EXCEPT !.sleep = Min(@ + 1, MaxPolls)]
    /\ Goto("spawn_poll")
    /\ UNCHANGED <<session, others, lab_spawned, op, running, calls, req, resp,
                   post_resp, progress_url, msg_id, inbox, consumed>>

(***************************************************************************)
(* delete_lab                                                              *)
(***************************************************************************)
\* delete_lab clearing the session's cookie jar and token header with the
\* lab.
delete_lab_ForgetsToken ==
    /\ pc = "delete_lab"
    /\ LET q == Request("DELETE", server_url(jupyter_url, user),
                        {<<"Referer", home_url(jupyter_url)>>}, {}, TRUE) IN
       \E r \in Responses(q, {""}) :
         /\ Sent(q, "delete")
         /\ resp' = r
         /\ IF r.status \notin {200, 202, 204}
            THEN Raise(StatusError(r))
            ELSE Return("")
    /\ headers' = headers \ {<<"x-xsrftoken", xsrftoken>>}
    /\ cookies' = {}
    /\ UNCHANGED <<user, jupyter_url, xsrftoken, others, lab_spawned, op,
                   running, calls, post_resp, progress_url, slept, msg_id,
                   inbox, consumed>>

\* delete_lab taking every status below 300 for success.
delete_lab_Any2xx ==
    /\ pc = "delete_lab"
    /\ LET q == Request("DELETE", server_url(jupyter_url, user),
                        {<<"Referer", home_url(jupyter_url)>>}, {}, TRUE) IN
       \E r \in Responses(q, {""}) :
         /\ Sent(q, "delete")
         /\ resp' = r
         /\ IF r.status >= 300 THEN Raise(StatusError(r)) ELSE Return("")
    /\ UNCHANGED <<session, others, lab_spawned, op, running, calls, post_resp,
                   progress_url, slept, msg_id, inbox, consumed>>

delete_lab ==
    /\ pc = "delete_lab"
    /\ LET q == Request("DELETE", server_url(jupyter_url, user),
                        {<<"Referer", home_url(jupyter_url)>>}, {}, TRUE) IN
       \E r \in Responses(q, {""}) :
         /\ Sent(q, "delete")
         /\ resp' = r
         /\ IF r.status \notin {200, 202, 204}
            THEN Raise(StatusError(r))
            ELSE Return("")
    /\ UNCHANGED <<session, others, lab_spawned, op, running, calls, post_resp,
                   progress_url, slept, msg_id, inbox, consumed>>

(***************************************************************************)
(* create_kernel                                                           *)
(***************************************************************************)
\* create_kernel taking every status below 300 for success.
create_kernel_Any2xx ==
    /\ pc = "create_kernel"
    /\ LET q == Request("POST", kernel_url(jupyter_url, user), {},
                        {<<"name", "python">>}, TRUE) IN
       \E r \in Responses(q, KernelIds) :
         /\ Sent(q, "post")
         /\ resp' = r
         /\ IF r.status >= 300
            THEN Raise(StatusError(r))
            ELSE Goto("create_json")
    /\ UNCHANGED <<session, others, lab_spawned, op, running, calls, post_resp,
                   progress_url, slept, msg_id, inbox, consumed>>

create_kernel ==
    /\ pc = "create_kernel"
    /\ LET q == Request("POST", kernel_url(jupyter_url, user), {},
                        {<<"name", "python">>}, TRUE) IN
       \E r \in Responses(q, KernelIds) :
         /\ Sent(q, "post")
         /\ resp' = r
         /\ IF r.status # 201 THEN Raise(StatusError(r)) ELSE Goto("create_json")
    /\ UNCHANGED <<session, others, lab_spawned, op, running, calls, post_resp,
                   progress_url, slept, msg_id, inbox, consumed>>

\* response = await r.json(); return response["id"]
create_json ==
    /\ pc = "create_json"
    /\ Return(resp.id)
    /\ UNCHANGED <<session, others, lab_spawned, op, running, calls, req, resp,
                   post_resp, progress_url, cnt, slept, msg_id, inbox,
                   consumed>>

(***************************************************************************)
(* run_python                                                              *)
(***************************************************************************)
Code == "print(2+2)"

ExecuteRequest(id, code) ==
    {<<"msg_id", id>>, <<"msg_type", "execute_request">>,
     <<"channel", "shell">>, <<"code", code>>}

\* msg_id = uuid4().hex, then session.ws_connect(kernel_url)
ws_connect ==
    /\ pc = "ws_connect"
    /\ \E k \in KernelIds, id \in MsgIds :
         /\ msg_id' = id
         /\ Sent(Request("WS", channels_url(jupyter_url, user, k), {},
                         ExecuteRequest(id, Code), TRUE), "connect")
    /\ Goto("ws_send")
    /\ UNCHANGED <<session, others, lab_spawned, op, running, calls, resp, post_resp,
                   progress_url, slept, inbox, consumed>>

\* await ws.send_json(msg)
ws_send ==
    /\ pc = "ws_send"
    /\ cnt' = [cnt EXCEPT !.send = Min(@ + 1, MaxPolls)]
    /\ Goto("ws_recv")
    /\ UNCHANGED <<session, others, lab_spawned, op, running, calls, req, resp,
                   post_resp, progress_url, slept, msg_id, inbox, consumed>>

\* ws_recv raising only on an error that answers its own request.
ws_recv_OwnErrorsOnly ==
    /\ pc = "ws_recv"
    /\ inbox # <<>>
    /\ LET r == Head(inbox) IN
         /\ consumed' = Append(consumed, r)
         /\ inbox' = Tail(inbox)
         /\ IF r.msg_type = "error" /\ msg_id = r.parent
            THEN Raise(PythonError(r))
            ELSE IF r.msg_type = "stream" /\ msg_id = r.parent
                 THEN Return(r.text)
                 ELSE Goto("ws_recv")
    /\ UNCHANGED <<session, others, lab_spawned, op, running, calls, req, resp,
                   post_resp, progress_url, cnt, slept, msg_id>>

\* ws_recv returning the text of any stream message.
ws_recv_AnyStream ==
    /\ pc = "ws_recv"
    /\ inbox # <<>>
    /\ LET r == Head(inbox) IN
         /\ consumed' = Append(consumed, r)
         /\ inbox' = Tail(inbox)
         /\ IF r.msg_type = "error"
            THEN Raise(PythonError(r))
            ELSE IF r.msg_type = "stream"
                 THEN Return(r.text)
                 ELSE Goto("ws_recv")
    /\ UNCHANGED <<session, others, lab_spawned, op, running, calls, req, resp,
                   post_resp, progress_url, cnt, slept, msg_id>>

\* ws_recv giving up on a silent channel.
ws_recv_TimesOut ==
    /\ pc = "ws_recv"
    /\ IF inbox = <<>>
       THEN /\ Raise([NoExc EXCEPT !.what = "TimeoutError"])
            /\ UNCHANGED <<inbox, consumed>>
       ELSE LET r == Head(inbox) IN
              /\ consumed' = Append(consumed, r)
              /\ inbox' = Tail(inbox)
              /\ IF r.msg_type = "error"
                 THEN Raise(PythonError(r))
                 ELSE IF r.msg_type = "stream" /\ msg_id = r.parent
                      THEN Return(r.text)
                      ELSE Goto("ws_recv")
    /\ UNCHANGED <<session, others, lab_spawned, op, running, calls, req, resp,
                   post_resp, progress_url, cnt, slept, msg_id>>

\* One turn of the receive loop: receive_json blocks on an empty channel.
ws_recv ==
    /\ pc = "ws_recv"
    /\ inbox # <<>>
    /\ LET r == Head(inbox) IN
         /\ consumed' = Append(consumed, r)
         /\ inbox' = Tail(inbox)
         /\ IF r.msg_type = "error"
            THEN Raise(PythonError(r))
            ELSE IF r.msg_type = "stream" /\ msg_id = r.parent
                 THEN Return(r.text)
                 ELSE Goto("ws_recv")
    /\ UNCHANGED <<session, others, lab_spawned, op, running, calls, req, resp,
                   post_resp, progress_url, cnt, slept, msg_id>>

\* The platform brings the lab up while the call waits for it (or loses it
\* again).
Platform ==
    /\ pc \in {"spawn_poll", "spawn_sleep"}
    /\ lab_spawned' = ~lab_spawned
    /\ UNCHANGED <<session, others, op, pc, outcome, exc, retval, running, calls,
                   req, resp, post_resp, progress_url, cnt, slept, msg_id,
                   inbox, consumed>>

\* The platform puts a message on the open channel.
Deliver(m) ==
    /\ pc \in {"ws_send", "ws_recv"}
    /\ Len(inbox) + Len(consumed) < MaxMsgs
    /\ inbox' = Append(inbox, m)
    /\ UNCHANGED <<session, others, lab_spawned, op, pc, outcome, exc, retval,
                   running, calls, req, resp, post_resp, progress_url, cnt,
                   slept, msg_id, consumed>>

Step ==
    \/ hub_login
    \/ is_lab_running
    \/ ensure_lab
    \/ lab_login
    \/ spawn_get
    \/ spawn_text
    \/ spawn_post
    \/ spawn_poll
    \/ spawn_sleep
    \/ delete_lab
    \/ create_kernel
    \/ create_json
    \/ ws_connect
    \/ ws_send
    \/ ws_recv

Next ==
    \/ \E m \in Methods : Call(m)
    \/ Step
    \/ \E m \in Msgs : Deliver(m)
    \/ Platform

Spec == Init /\ [][Next]_vars

\* The event loop keeps running a call that can go on.
FairSpec == Spec /\ WF_vars(Step)

(***************************************************************************)
(* MonkeyBusinessFactory.create                                            *)
(***************************************************************************)
\* The loop class a business value selects, "" where create raises.
Variant_UnknownIsBase(business) ==
    IF business = "JupyterLoginLoop" THEN "JupyterLoginLoop"
    ELSE IF business = "JupyterPythonLoop" THEN "JupyterPythonLoop"
    ELSE "Business"

Variant(business) ==
    IF business = None THEN "Business"
    ELSE IF business = "JupyterLoginLoop" THEN "JupyterLoginLoop"
    ELSE IF business = "JupyterPythonLoop" THEN "JupyterPythonLoop"
    ELSE ""

\* body.get("business", None)
GetBusiness(b) == IF "business" \in DOMAIN b THEN b.business ELSE None

Failed(e, built) == [made |-> built, monkey |-> NoMonkey, error |-> e]

\* create with a uidnumber of 0 where the request has none.
Created_DefaultsUid(b, id) ==
    IF "username" \notin DOMAIN b THEN Failed("KeyError", <<>>)
    ELSE LET uid == IF "uidnumber" \in DOMAIN b THEN b.uidnumber ELSE 0
             kind == Variant(GetBusiness(b))
         IN  IF kind = ""
             THEN Failed("ValueError", <<"User", "Monkey">>)
             ELSE [made |-> <<"User", "Monkey", kind>>,
                   monkey |-> NewMonkey(id, NewUser(b.username, uid), kind),
                   error |-> ""]

\* What create(b) constructs, returns and raises; id is the identity of the
\* Monkey it constructs.
Created(b, id) ==
    IF "username" \notin DOMAIN b THEN Failed("KeyError", <<>>)
    ELSE IF "uidnumber" \notin DOMAIN b THEN Failed("KeyError", <<>>)
    ELSE LET kind == Variant(GetBusiness(b))
         IN  IF kind = ""
             THEN Failed("ValueError", <<"User", "Monkey">>)
             ELSE [made |-> <<"User", "Monkey", kind>>,
                   monkey |-> NewMonkey(id, NewUser(b.username, b.uidnumber),
                                        kind),
                   error |-> ""]

\* The Monkey objects in r.made.
Monkeys(r) == Cardinality({i \in 1..Len(r.made) : r.made[i] = "Monkey"})

\* create putting the Monkey it returns into the registry itself.
create_Registers(b) ==
    /\ nmonkeys < MaxMonkeys
    /\ LET r == Created(b, nmonkeys + 1) IN
         /\ body' = b
         /\ made' = r.made
         /\ monkey' = r.monkey
         /\ error' = r.error
         /\ nmonkeys' = nmonkeys + Monkeys(r)
         /\ registry' = IF r.error = ""
                         THEN [registry EXCEPT ![b.username] = r.monkey]
                         ELSE registry
    /\ UNCHANGED <<client, teardowns, stop_requested, peer>>

create(b) ==
    /\ nmonkeys < MaxMonkeys
    /\ LET r == Created(b, nmonkeys + 1) IN
         /\ body' = b
         /\ made' = r.made
         /\ monkey' = r.monkey
         /\ error' = r.error
         /\ nmonkeys' = nmonkeys + Monkeys(r)
    /\ UNCHANGED <<client, teardowns, stop_requested, peer, registry>>

\* The caller of create keeps the Monkey it got under its username.
register ==
    /\ error = "" /\ monkey # NoMonkey
    /\ registry[monkey.user.username] # monkey
    /\ registry' = [registry EXCEPT ![monkey.user.username] = monkey]
    /\ UNCHANGED <<client, teardowns, stop_requested, peer, body, made,
                   monkey, error, nmonkeys>>

\* Starting the loop of a registered Monkey is the caller's step too.
start(n) ==
    /\ registry[n].business.state = "Idle"
    /\ registry' = [registry EXCEPT ![n].business.state = "Running"]
    /\ monkey' = IF monkey.id = registry[n].id
                  THEN [monkey EXCEPT !.business.state = "Running"]
                  ELSE monkey
    /\ UNCHANGED <<client, teardowns, stop_requested, peer, body, made,
                   error, nmonkeys>>

\* delete(username) takes the Monkey out of the registry.
delete_user(n) ==
    /\ registry[n] # NoMonkey
    /\ registry' = [registry EXCEPT ![n] = NoMonkey]
    /\ UNCHANGED <<client, teardowns, stop_requested, peer, body, made,
                   monkey, error, nmonkeys>>

FactoryNext ==
    \/ \E b \in Bodies : create(b)
    \/ register
    \/ \E n \in Usernames : start(n)
    \/ \E n \in Usernames : delete_user(n)

FactorySpec == Init /\ [][FactoryNext]_vars

(***************************************************************************)
(* Stopping a Monkey while its client is inside a call                     *)
(***************************************************************************)
CancelledError == [NoExc EXCEPT !.what = "CancelledError"]

\* The awaits a call can be suspended at inside its two open-ended loops.
LoopAwaits == {"spawn_poll", "spawn_sleep", "ws_recv"}

\* A stop request: the flag is set and the loop's task is cancelled.
Stop ==
    /\ ~stop_requested
    /\ stop_requested' = TRUE
    /\ UNCHANGED <<client, teardowns, peer, factory>>

\* The loops keeping on after a cancellation (try / except around their
\* awaits).
Interrupt_SwallowedInLoops ==
    /\ stop_requested
    /\ pc \notin {"idle"} \cup LoopAwaits
    /\ pc' = "idle"
    /\ outcome' = "cancelled"
    /\ exc' = CancelledError
    /\ UNCHANGED <<session, others, op, retval, running, calls, req, resp,
                   post_resp, progress_url, cnt, slept, msg_id, inbox,
                   consumed, lab_spawned>>

\* The cancellation is raised by the await the call is suspended at; no
\* method catches it, so it ends the call there.
Interrupt ==
    /\ stop_requested
    /\ pc # "idle"
    /\ pc' = "idle"
    /\ outcome' = "cancelled"
    /\ exc' = CancelledError
    /\ UNCHANGED <<session, others, op, retval, running, calls, req, resp,
                   post_resp, progress_url, cnt, slept, msg_id, inbox,
                   consumed, lab_spawned>>

\* The loop looks at the flag at the top of each cycle: no call is begun
\* once a stop is requested.
Cycle(m) ==
    /\ ~stop_requested
    /\ Call(m)

StopNext ==
    \/ \E m \in Methods : Cycle(m)
    \/ Step
    \/ \E m \in Msgs : Deliver(m)
    \/ Platform
    \/ Stop
    \/ Interrupt

\* The event loop runs what can run: a call that can go on, and a
\* cancellation that is pending.
StopSpec == Init /\ [][StopNext]_vars /\ WF_vars(Step) /\ WF_vars(Interrupt)

(***************************************************************************)
(* A second JupyterClient, of another Monkey, on the same event loop       *)
(***************************************************************************)
\* random.choices may or may not give the second client the first's token.
PeerXsrfTokens == XsrfTokens \cup {"Z9Y8X7W6V5U4T3S2"}

PeerMethods == {"hub_login", "delete_lab"}

\* The object __init__ builds for user u when random.choices gives t.
NewClient(u, t) ==
    [built |-> TRUE, user |-> u, xsrftoken |-> t,
     headers |-> {<<"Authorization", "Bearer " \o TokenOf(u)>>,
                  <<"x-xsrftoken", t>>},
     cookies |-> {<<"_xsrf", t>>},
     pc |-> "idle", outcome |-> "none", sent |-> {}]

\* headers as one dict of the class, which every construction fills in.
peer_init_SharedHeaders(u, t) ==
    /\ ~peer.built
    /\ u # user
    /\ peer' = NewClient(u, t)
    /\ headers' = NewClient(u, t).headers
    /\ UNCHANGED <<user, jupyter_url, xsrftoken, cookies, op, pc, outcome,
                   exc, retval, running, calls, req, resp, post_resp,
                   progress_url, cnt, slept, msg_id, inbox, consumed,
                   lab_spawned, teardowns, stop_requested, factory>>

peer_init(u, t) ==
    /\ ~peer.built
    /\ u # user
    /\ peer' = NewClient(u, t)
    /\ UNCHANGED <<client, teardowns, stop_requested, factory>>

\* The second client sends the request of method m through its own session.
peer_call(m) ==
    /\ peer.built
    /\ peer.pc = "idle"
    /\ peer' = [peer EXCEPT !.pc = m, !.outcome = "none",
                             !.sent = peer.headers]
    /\ UNCHANGED <<client, teardowns, stop_requested, factory>>

\* Its call returns or raises.
peer_finish(o) ==
    /\ peer.pc # "idle"
    /\ peer' = [peer EXCEPT !.pc = "idle", !.outcome = o]
    /\ UNCHANGED <<client, teardowns, stop_requested, factory>>

PeerNext ==
    \/ \E u \in Usernames, t \in PeerXsrfTokens : peer_init(u, t)
    \/ \E m \in PeerMethods : peer_call(m)
    \/ \E o \in {"returned", "raised"} : peer_finish(o)

PairNext ==
    \/ Next
    \/ PeerNext

PairSpec == Init /\ [][PairNext]_vars

(***************************************************************************)
(* delete_lab called again on the same client                              *)
(***************************************************************************)
\* The caller's calls, with the delete_lab calls made in a row counted:
\* the count goes up when delete_lab follows delete_lab, starts again at 1
\* when it follows another method, and is kept through the calls of other
\* methods that come after.
CallCounted(m) ==
    /\ Enter(m)
    /\ teardowns' = IF m # "delete_lab" THEN teardowns
                     ELSE IF op = "delete_lab"
                          THEN Min(teardowns + 1, MaxTeardowns)
                          ELSE 1
    /\ UNCHANGED <<stop_requested, peer, factory>>

TeardownNext ==
    \/ \E m \in Methods : CallCounted(m)
    \/ Step
    \/ \E m \in Msgs : Deliver(m)
    \/ Platform

TeardownSpec == Init /\ [][TeardownNext]_vars

(***************************************************************************)
(* Properties                                                              *)
(***************************************************************************)
Finished(m) == op = m /\ outcome # "none"

\* C1: hub_login returns if and only if the login GET answered 200 and
\* landed on the hub home URL; with any other status or landing URL it
\* raises.
C1_HubLoginIffOkAndHome ==
    Finished("hub_login") =>
        /\ outcome = "returned"
               <=> (resp.status = 200 /\ resp.url = jupyter_url \o "hub/home")
        /\ outcome = "raised"
               <=> (resp.status # 200 \/ resp.url # jupyter_url \o "hub/home")
        /\ req.method = "GET" /\ req.url = jupyter_url \o "hub/login"

C1_Witness ==
    /\ Finished("hub_login") /\ outcome = "raised"
    /\ resp.status = 200 /\ resp.url = jupyter_url \o "hub/spawn"

\* C2: is_lab_running returns False exactly when the GET of the hub root
\* landed on the spawn URL and True for every other landing URL, whatever
\* the status; it never raises.
C2_IsLabRunningByUrlOnly ==
    /\ Finished("is_lab_running") =>
           /\ outcome = "returned"
           /\ running <=> (resp.url # jupyter_url \o "hub/spawn")
           /\ req.method = "GET" /\ req.url = jupyter_url \o "hub"
    /\ (op = "ensure_lab" /\ pc = "ensure_lab") =>
           (running <=> (resp.url # jupyter_url \o "hub/spawn"))

C2_Witness ==
    /\ Finished("is_lab_running") /\ outcome = "returned"
    /\ resp.status = 500 /\ resp.url = jupyter_url \o "hub/spawn"
    /\ ~running

\* C3: ensure_lab runs is_lab_running first and then exactly one of
\* lab_login (the probe said True) and spawn_lab (it said False): never
\* both, never neither, and none before the probe has returned.
FollowUpPositions ==
    {"lab_login", "spawn_get", "spawn_text", "spawn_post", "spawn_poll",
     "spawn_sleep"}

C3_EnsureLabProbeThenOne ==
    op = "ensure_lab" =>
        /\ Len(calls) \in {2, 3}
        /\ calls[1] = "ensure_lab" /\ calls[2] = "is_lab_running"
        /\ pc = "is_lab_running" => (Len(calls) = 2 /\ cnt = ZeroCnt)
        /\ pc = "ensure_lab" => (Len(calls) = 2 /\ cnt.get = 1)
        /\ (pc \in FollowUpPositions \/ outcome # "none") => Len(calls) = 3
        /\ Len(calls) = 3 =>
               /\ calls[3] = (IF running THEN "lab_login" ELSE "spawn_lab")
               /\ pc = "lab_login" => calls[3] = "lab_login"
               /\ pc \in FollowUpPositions \ {"lab_login"}
                      => calls[3] = "spawn_lab"
               /\ calls[3] = "lab_login" => (cnt.post = 0 /\ cnt.poll = 0)
               /\ calls[3] = "spawn_lab" =>
                      req.url # jupyter_url \o "user/" \o user \o "/lab"

C3_Witness ==
    /\ Finished("ensure_lab") /\ outcome = "returned"
    /\ calls = <<"ensure_lab", "is_lab_running", "spawn_lab">>
    /\ cnt.poll = 2

\* C4: when spawn_lab's POST is answered with a status other than 302 the
\* call raises at once: no poll of the progress URL and no sleep.
C4_SpawnNon302RaisesUnpolled ==
    (op \in {"spawn_lab", "ensure_lab"} /\ post_resp # NoResp
         /\ post_resp.status # 302) =>
        /\ outcome = "raised" /\ pc = "idle"
        /\ exc.what = "Error" /\ exc.status = post_resp.status
        /\ cnt.poll = 0 /\ cnt.sleep = 0 /\ slept = 0
        /\ req.method = "POST" /\ resp = post_resp

C4_Witness ==
    /\ Finished("spawn_lab") /\ outcome = "raised"
    /\ post_resp.status = 200 /\ cnt.post = 1 /\ cnt.poll = 0

\* The call is past a POST of spawn_lab that was answered 302.
Spawning == op \in {"spawn_lab", "ensure_lab"} /\ post_resp.status = 302

TheLab == jupyter_url \o "user/" \o user \o "/lab"

\* C5: after a 302 on the POST, spawn_lab returns at the first progress GET
\* that lands on the user's lab URL and not before: after N GETs, with one
\* sleep of 15 after each of the N-1 GETs that landed elsewhere and none
\* after the last.  (The counters are exact below MaxPolls.)
C5_SpawnReturnsAtFirstLanding ==
    Spawning =>
        /\ slept = 15 * cnt.sleep
        /\ pc = "spawn_poll" =>
               /\ cnt.sleep = cnt.poll
               /\ cnt.poll > 0 => resp.url # TheLab
        /\ pc = "spawn_sleep" =>
               /\ resp.url # TheLab
               /\ cnt.poll >= 1
               /\ cnt.poll < MaxPolls => cnt.sleep + 1 = cnt.poll
        /\ outcome = "returned" =>
               /\ resp.url = TheLab
               /\ cnt.poll >= 1
               /\ cnt.poll < MaxPolls => cnt.sleep + 1 = cnt.poll

C5_Witness ==
    /\ Spawning /\ outcome = "returned"
    /\ cnt.poll = 2 /\ cnt.sleep = 1 /\ slept = 15

\* A progress GET that lands elsewhere than the lab is followed by the sleep,
\* and the sleep by the next GET.
C6_PollGoesOn ==
    /\ (pc = "spawn_poll" /\ pc' # "spawn_poll") =>
           IF resp'.url = TheLab
           THEN outcome' = "returned"
           ELSE pc' = "spawn_sleep" /\ outcome' = "none"
    /\ (pc = "spawn_sleep" /\ pc' # "spawn_sleep") =>
           pc' = "spawn_poll" /\ outcome' = "none"

\* Past the 302 the call is in the loop until it returns.
C6_NeverRaises ==
    Spawning =>
        /\ outcome # "raised"
        /\ outcome = "none" => pc \in {"spawn_poll", "spawn_sleep"}

\* C6: the progress poll has no cap and no timeout.  After a 302 on the POST
\* the call never raises; a GET that lands elsewhere than the lab, whatever
\* its status and however many came before, is followed by the sleep and
\* the sleep by the next GET.  If the lab is up while the call polls, the
\* call returns (unless the platform loses the lab again first).
C6_UnboundedPoll ==
    /\ []C6_NeverRaises
    /\ [][C6_PollGoesOn]_vars
    /\ (pc \in {"spawn_poll", "spawn_sleep"} /\ lab_spawned)
           ~> (outcome = "returned" \/ ~lab_spawned)

C6_Witness ==
    /\ Spawning /\ pc = "spawn_sleep"
    /\ cnt.poll = MaxPolls /\ cnt.sleep = MaxPolls
    /\ resp.status = 500

\* C7: every progress GET of spawn_lab goes to the URL the POST's 302
\* handed back (its Location).
C7_PollsTheReturnedLocation ==
    (Spawning /\ cnt.poll > 0) => req.url = post_resp.location

\* A message that ends run_python's receive loop.
Decides(m) ==
    \/ m.msg_type = "error"
    \/ m.msg_type = "stream" /\ m.parent = msg_id

\* C8: run_python's outcome is that of the first received message that is
\* an error or a stream message answering the request's msg_id: an error
\* raises with the message as payload, the stream message's text is
\* returned as it is.  Every message before it was passed over, and none
\* after it is received.
C8_FirstDecidingMessage ==
    op = "run_python" =>
        /\ \A i \in 1..Len(consumed) :
               Decides(consumed[i]) => i = Len(consumed)
        /\ outcome = "none" => \A i \in 1..Len(consumed) : ~Decides(consumed[i])
        /\ outcome # "none" =>
               /\ Len(consumed) >= 1
               /\ LET d == consumed[Len(consumed)] IN
                    /\ Decides(d)
                    /\ d.msg_type = "error" =>
                           outcome = "raised" /\ exc.payload = d
                    /\ d.msg_type = "stream" =>
                           outcome = "returned" /\ retval = d.text

C8_Witness ==
    /\ Finished("run_python") /\ outcome = "returned"
    /\ Len(consumed) = 3 /\ Len(inbox) = 0
    /\ consumed[1].msg_type = "stream" /\ consumed[1].parent # msg_id
    /\ consumed[2].msg_type = "status"
    /\ retval = "hello\n"

\* One send_json, before anything is received.
C9_OneSend ==
    op = "run_python" =>
        /\ (pc = "ws_recv" \/ outcome # "none") => cnt.send = 1
        /\ consumed # <<>> => cnt.send = 1
        /\ pc \in {"ws_connect", "ws_send"} => (cnt.send = 0 /\ consumed = <<>>)

\* The receive loop is left only by receiving a deciding message.
C9_LeavesOnlyByDeciding ==
    (pc = "ws_recv" /\ (pc' # "ws_recv" \/ outcome' # "none")) =>
        /\ inbox # <<>>
        /\ consumed' = Append(consumed, Head(inbox))
        /\ Decides(Head(inbox))

\* C9: run_python sends one execute_request before it receives anything and
\* then never times out: it leaves the receive loop only by receiving a
\* deciding message and waits as long as there is none; once a deciding
\* message is on the channel the call ends.
C9_NeverTimesOut ==
    /\ []C9_OneSend
    /\ [][C9_LeavesOnlyByDeciding]_vars
    /\ (pc = "ws_recv" /\ \E i \in 1..Len(inbox) : Decides(inbox[i]))
           ~> (outcome # "none")

C9_Witness ==
    /\ op = "run_python" /\ pc = "ws_recv" /\ outcome = "none"
    /\ Len(consumed) = MaxMsgs /\ inbox = <<>>

\* C10: delete_lab issues one DELETE on the user's server resource with a
\* Referer header naming the hub home URL, and returns if and only if the
\* status is 200, 202 or 204; any other status raises.
C10_DeleteLab ==
    Finished("delete_lab") =>
        /\ cnt.delete = 1 /\ cnt.get = 0 /\ cnt.post = 0
        /\ req.method = "DELETE"
        /\ req.url = jupyter_url \o "hub/api/users/" \o user \o "/server"
        /\ <<"Referer", jupyter_url \o "hub/home">> \in req.headers
        /\ outcome = "returned" <=> resp.status \in {200, 202, 204}
        /\ outcome = "raised" <=> resp.status \notin {200, 202, 204}

C10_Witness ==
    /\ Finished("delete_lab") /\ outcome = "raised" /\ resp.status = 201

\* C11: create_kernel returns the kernel id of the response body if and only
\* if the POST was answered 201; with any other status it raises and
\* returns no id.
C11_CreateKernel ==
    Finished("create_kernel") =>
        /\ cnt.post = 1
        /\ req.method = "POST"
        /\ req.url = jupyter_url \o "user/" \o user \o "/api/kernels"
        /\ outcome = "returned" <=> resp.status = 201
        /\ outcome = "raised" <=> resp.status # 201
        /\ outcome = "returned" => (retval = resp.id /\ retval \in KernelIds)
        /\ outcome = "raised" => (retval = "" /\ exc.status = resp.status)

C11_Witness ==
    /\ Finished("create_kernel") /\ outcome = "returned"
    /\ resp.status = 201 /\ retval = "k2"

\* The HTTP requests of the running call.
Requests == cnt.get + cnt.post + cnt.delete + cnt.poll

\* C15: nothing is retried.  hub_login, lab_login, delete_lab and
\* create_kernel issue one request each and raise on the spot, with the
\* URL (and, for a status error, the status) of that one response; across all methods the only request
\* issued more than once in a call is spawn_lab's progress GET.
C15_NoRetry ==
    /\ op \in {"hub_login", "lab_login", "delete_lab", "create_kernel",
                "is_lab_running"} =>
           /\ Requests <= 1
           /\ outcome # "none" => Requests = 1
           /\ cnt.poll = 0 /\ cnt.sleep = 0
           /\ outcome = "raised" =>
                  /\ exc.url = resp.url
                  /\ exc.what = "Error" => exc.status = resp.status
    /\ (op = "ensure_lab" /\ Len(calls) = 3 /\ calls[3] = "lab_login") =>
           /\ cnt.get <= 2 /\ cnt.post = 0 /\ cnt.poll = 0
           /\ outcome # "none" => cnt.get = 2
    /\ cnt.post <= 1 /\ cnt.delete <= 1 /\ cnt.get <= 2
    /\ cnt.connect <= 1 /\ cnt.send <= 1
    /\ cnt.get = 2 => op = "ensure_lab"
    /\ cnt.poll > 0 => Spawning

C15_Witness ==
    /\ Finished("lab_login") /\ outcome = "raised"
    /\ resp.status = 404 /\ cnt.get = 1

\* C19: an error message makes run_python raise whatever request it answers:
\* the error branch does not look at the parent msg_id.
C19_AnyErrorRaises ==
    (op = "run_python" /\ consumed # <<>>
         /\ consumed[Len(consumed)].msg_type = "error") =>
        /\ outcome = "raised"
        /\ exc.what = "Error running python"
        /\ exc.payload = consumed[Len(consumed)]

C19_Witness ==
    /\ Finished("run_python") /\ outcome = "raised"
    /\ consumed[Len(consumed)].msg_type = "error"
    /\ consumed[Len(consumed)].parent # msg_id

\* The GETs of the call before spawn_lab's own.
ProbeGets == IF op = "ensure_lab" THEN 1 ELSE 0

C20_Positions ==
    op \in {"spawn_lab", "ensure_lab"} =>
        /\ pc = "spawn_get" =>
               (cnt.get = ProbeGets /\ cnt.post = 0 /\ cnt.poll = 0)
        /\ pc \in {"spawn_text", "spawn_post"} =>
               /\ cnt.get = ProbeGets + 1 /\ cnt.post = 0 /\ cnt.poll = 0
               /\ req.method = "GET" /\ req.url = jupyter_url \o "hub/spawn"
        /\ cnt.post <= 1
        /\ cnt.post = 1 => (cnt.get = ProbeGets + 1 /\ post_resp # NoResp)
        /\ cnt.poll > 0 => (cnt.post = 1 /\ post_resp.status = 302)
        /\ pc \in {"spawn_poll", "spawn_sleep"} =>
               (cnt.post = 1 /\ post_resp.status = 302)

C20_Steps ==
    /\ (pc' = "spawn_text" /\ pc # "spawn_text") => pc = "spawn_get"
    /\ (pc' = "spawn_post" /\ pc # "spawn_post") => pc = "spawn_text"
    /\ (pc' = "spawn_poll" /\ pc # "spawn_poll") =>
           pc \in {"spawn_post", "spawn_sleep"}
    /\ (pc = "spawn_post" /\ pc' # "spawn_post") => cnt'.post = 1

\* C20: the requests of one spawn_lab come in a fixed order: the GET of the
\* spawn URL is issued and read before the POST (also when the POST then
\* fails), the POST is issued once, and no progress GET is issued before
\* the POST was answered 302.
C20_SpawnOrder ==
    /\ []C20_Positions
    /\ [][C20_Steps]_vars

C20_Witness ==
    /\ Finished("spawn_lab") /\ outcome = "raised"
    /\ cnt.get = 1 /\ cnt.post = 1 /\ cnt.poll = 0
    /\ post_resp.status = 500

\* A step of create (one that constructs nothing and repeats the last
\* request's failure changes nothing at all).
CreateStep == <<body, made, error, nmonkeys>>' # <<body, made, error, nmonkeys>>

HasBoth == {"username", "uidnumber"} \subseteq DOMAIN body

C12_Selected ==
    HasBoth =>
        LET b == IF "business" \in DOMAIN body THEN body.business ELSE None
        IN  /\ b = None =>
                   (error = "" /\ monkey.business.kind = "Business")
            /\ b = "JupyterLoginLoop" =>
                   (error = "" /\ monkey.business.kind = "JupyterLoginLoop")
            /\ b = "JupyterPythonLoop" =>
                   (error = "" /\ monkey.business.kind = "JupyterPythonLoop")
            /\ b \notin {None, "JupyterLoginLoop", "JupyterPythonLoop"} =>
                   (error = "ValueError" /\ monkey = NoMonkey)
            /\ error = "" =>
                   /\ monkey # NoMonkey
                   /\ monkey.business.monkey = monkey.id
                   /\ monkey.user.username = body.username
                   /\ monkey.user.uidnumber = body.uidnumber

\* C12: for a request with username and uidnumber, a business that is not
\* set selects Business, "JupyterLoginLoop" and "JupyterPythonLoop" select
\* the loop of that name (matched exactly), and the loop belongs to the
\* Monkey returned; any other business makes create raise, return no Monkey
\* and leave the registry as it was.
C12_CreateSelectsBusiness ==
    /\ []C12_Selected
    /\ [][(CreateStep /\ error' # "") => registry' = registry]_vars

C12_Witness ==
    /\ HasBoth /\ "business" \in DOMAIN body
    /\ body.business = "jupyterloginloop"
    /\ error = "ValueError" /\ monkey = NoMonkey
    /\ \E n \in Usernames : registry[n] # NoMonkey

\* C13: a request without username or without uidnumber makes create raise,
\* whatever its business, before a User, a Monkey or a loop is constructed,
\* and nothing is registered.
C13_CreateNeedsBothFields ==
    [][(CreateStep /\ ~HasBoth') =>
          /\ error' = "KeyError"
          /\ made' = <<>>
          /\ monkey' = NoMonkey
          /\ nmonkeys' = nmonkeys
          /\ registry' = registry]_vars

C13_Witness ==
    /\ DOMAIN body = {"username", "business"}
    /\ body.business = "JupyterLoginLoop"
    /\ error = "KeyError" /\ made = <<>>
    /\ nmonkeys > 0

OwnAuth(hs, u) ==
    \A h \in hs : h[1] = "Authorization" => h[2] = "Bearer " \o TokenOf(u)

C17_OwnState ==
    /\ headers = {<<"Authorization", "Bearer " \o TokenOf(user)>>,
                  <<"x-xsrftoken", xsrftoken>>}
    /\ cookies = {<<"_xsrf", xsrftoken>>}
    /\ OwnAuth(req.headers, user)
    /\ peer.built =>
           /\ peer.user # user
           /\ peer.headers = {<<"Authorization",
                                "Bearer " \o TokenOf(peer.user)>>,
                              <<"x-xsrftoken", peer.xsrftoken>>}
           /\ peer.cookies = {<<"_xsrf", peer.xsrftoken>>}
           /\ OwnAuth(peer.sent, peer.user)
           /\ peer.pc # "idle" => peer.sent = peer.headers

C17_Frames ==
    /\ peer' # peer => client' = client
    /\ client' # client => peer' = peer

\* C17: each client holds the Authorization header of its own user, its own
\* token and the cookie of that token, and sends its requests with its own
\* headers; a step of one client (its construction, a call, a return, a
\* raise) leaves every field and the call in flight of the other as they
\* were.
C17_SessionIsolation ==
    /\ []C17_OwnState
    /\ [][C17_Frames]_vars

C17_Witness ==
    /\ peer.built /\ peer.outcome = "raised"
    /\ peer.xsrftoken # xsrftoken
    /\ pc = "spawn_sleep" /\ cnt.poll = 2
    /\ req.headers # {}

\* The session state __init__ gives the client of this user and token.
C18_Intact ==
    /\ jupyter_url = environment_url \o "/nb/"
    /\ headers = {<<"Authorization", "Bearer " \o TokenOf(user)>>,
                  <<"x-xsrftoken", xsrftoken>>}
    /\ cookies = {<<"_xsrf", xsrftoken>>}

C18_AfterTwo ==
    teardowns = MaxTeardowns =>
        /\ C18_Intact
        /\ (op = "delete_lab" /\ outcome # "none") =>
               /\ pc = "idle"
               /\ ENABLED Enter("hub_login")
               /\ ENABLED Enter("ensure_lab")
        /\ (op \in {"hub_login", "ensure_lab"} /\ req # NoReq) =>
               req.headers = headers

\* C18: delete_lab called again right after delete_lab, each call returning
\* or raising as it may, leaves user, jupyter_url, xsrftoken, headers and
\* cookies as they were before the first call; once the second call is over
\* the client takes a call of hub_login or ensure_lab, which sends its
\* request with those headers.
C18_TeardownTwice ==
    /\ []C18_AfterTwo
    /\ [][(op' = "delete_lab") => session' = session]_vars

C18_Witness ==
    /\ teardowns = MaxTeardowns
    /\ op = "hub_login" /\ outcome = "returned"
    /\ req.headers = headers
====
